---- MODULE Spec2Model ----
(***************************************************************************)
(* WagmiStrategy (strategies/wagmi/src/WagmiStrategy.ts): the adapter that *)
(* binds the Strategy contract to a wagmi connector store.                 *)
(*                                                                         *)
(* The adapter's fields are `account`, `signer` and `unsubscribeAccount`.  *)
(* Every async method is cut at its awaits: one action per segment between *)
(* two suspension points.  The connector store, the connector routines     *)
(* (connect, disconnect, reconnect) and the signer are the environment:    *)
(* their emissions and outcomes are chosen nondeterministically.           *)
(***************************************************************************)
EXTENDS Naturals, Sequences, FiniteSets

\* ---------------------------------------------------------------- bounds
\* fire-and-forget signer derivations in flight at once
MaxPending == 2
\* adapter calls (connect, disconnect, sync) suspended at once
MaxCalls == 2
\* subscriptions opened through addAddressEvent
MaxSubs == 2
\* cleanupListeners() calls counted
MaxCleanup == 2

\* ---------------------------------------------------------------- values
Null == "null"
Addr == {"A", "B"}
ConnIds == {"c1", "c2"}
Fns == {"f1"}

\* account lists a connection can hold
AccountLists == {<<>>, <<"A">>, <<"B">>, <<"A", "B">>, <<"B", "A">>}

\* the connections map of the connector store: connection id -> accounts;
\* the second connection, when there is one, holds the single account B
Connections ==
    {m \in UNION {[D -> AccountLists] : D \in SUBSET ConnIds} :
        "c2" \in DOMAIN m => m["c2"] = <<"B">>}

\* the states the connector store can emit
StoreStates == [current : ConnIds \cup {Null}, connections : Connections]

VARIABLES
    account,          \* this.account: Null or an address
    signer,           \* this.signer: Null or a signer
    ownSub,           \* the constructor-time subscription is attached to the store
    unsubCalls,       \* how often this.unsubscribeAccount has been invoked
    listeners,        \* subscriptions opened by addAddressEvent, in order
    pending,          \* fire-and-forget getEthersSigner calls in flight, per address
    connectSt,        \* the connect() call in flight
    disconnectSt,     \* the disconnect() call in flight
    syncSt,           \* the sync() call in flight
    constructed,      \* the constructor's own sync() has settled
    pristine,         \* no session so far: no active emission, no connect()
    justDisconnected, \* a successful disconnect() returned and no call or emission since
    ret               \* the step just taken: operation, outcome, what it observed

vars == <<account, signer, ownSub, unsubCalls, listeners, pending, connectSt,
          disconnectSt, syncSt, constructed, pristine, justDisconnected, ret>>

eventVars == <<ownSub, unsubCalls, listeners>>
callVars == <<connectSt, disconnectSt, syncSt>>

\* ------------------------------------------------------- signer derivation
\* getEthersSigner: the signer derived for an address
SignerFor(a) == IF a = "A" THEN "sA" ELSE "sB"

Signers == {SignerFor(a) : a \in Addr}

\* the address a signer signs for
BoundTo(s) == CHOOSE a \in Addr : SignerFor(a) = s

PendingCount == pending["A"] + pending["B"]

\* getEthersSigner(this.config).then(...).catch(console.error), not awaited
Dispatch(p, a) == [p EXCEPT ![a] = @ + 1]

\* ------------------------------------------------------------ projection
\* FirstAccount reading the last account of the list instead of the first
FirstAccountLast(s) ==
    IF s.current = Null THEN Null
    ELSE IF s.current \notin DOMAIN s.connections THEN Null
    ELSE IF Len(s.connections[s.current]) = 0 THEN Null
    ELSE s.connections[s.current][Len(s.connections[s.current])]

\* FirstAccount without the test of current.current: the first connection
\* that has an account is taken
FirstAccountAnyConnection(s) ==
    IF \E c \in DOMAIN s.connections : Len(s.connections[c]) > 0
    THEN LET c == CHOOSE c \in DOMAIN s.connections : Len(s.connections[c]) > 0
         IN  s.connections[c][1]
    ELSE Null

\* current.connections.get(current.current)?.accounts[0] ?? null
FirstAccount(s) ==
    IF s.current = Null THEN Null
    ELSE IF s.current \notin DOMAIN s.connections THEN Null
    ELSE IF Len(s.connections[s.current]) = 0 THEN Null
    ELSE s.connections[s.current][1]

\* the emission names an active connection that holds an account
HasActiveAccount(s) ==
    /\ s.current # Null
    /\ s.current \in DOMAIN s.connections
    /\ s.connections[s.current] # <<>>

Idle == [pc |-> "idle"]

\* the connect() call in flight, after a write to account or signer that is
\* not its own; clears tells whether the write left account null
Overwritten(c, clears) ==
    IF c.pc = "idle" THEN c
    ELSE [c EXCEPT !.touched = TRUE,
                   !.cleared = @ \/ (clears /\ c.pc = "awaitSigner")]

InFlight ==
    (IF connectSt.pc = "idle" THEN 0 ELSE 1)
    + (IF disconnectSt.pc = "idle" THEN 0 ELSE 1)
    + (IF syncSt.pc = "idle" THEN 0 ELSE 1)

\* ------------------------------------------------------------------ Init
\* the state the constructor leaves: fields at their initialisers, sync()
\* suspended at its await of reconnect, the account subscription attached
Init ==
    /\ account = Null
    /\ signer = Null
    /\ ownSub = TRUE
    /\ unsubCalls = 0
    /\ listeners = <<>>
    /\ pending = [a \in Addr |-> 0]
    /\ connectSt = Idle
    /\ disconnectSt = Idle
    /\ syncSt = [pc |-> "awaitReconnect"]
    /\ constructed = FALSE
    /\ pristine = TRUE
    /\ justDisconnected = FALSE
    /\ ret = [op |-> "new"]

\* ------------------------------------------------------- store emissions
\* the addAddressEvent subscriptions still attached, in subscription order
LiveSubs ==
    SelectSeq([i \in 1..Len(listeners) |-> i], LAMBDA i : listeners[i].live)

\* AddressCalls without the test of newAccount before listener(newAccount)
AddressCallsUnguarded(s) ==
    IF s.current # Null
    THEN [k \in 1..Len(LiveSubs) |->
             [sub |-> LiveSubs[k], fn |-> listeners[LiveSubs[k]].fn,
              address |-> FirstAccount(s)]]
    ELSE <<>>

\* the callbacks addAddressEvent registered, run in subscription order: the
\* invocations of the listeners they make for emission s
AddressCalls(s) ==
    IF s.current # Null /\ FirstAccount(s) # Null
    THEN [k \in 1..Len(LiveSubs) |->
             [sub |-> LiveSubs[k], fn |-> listeners[LiveSubs[k]].fn,
              address |-> FirstAccount(s)]]
    ELSE <<>>

\* the store emits state s: every attached subscription runs its callback
Emit(s) ==
    /\ IF ownSub
       THEN /\ account' = FirstAccount(s)
            /\ IF FirstAccount(s) # Null
               THEN /\ PendingCount < MaxPending
                    /\ pending' = Dispatch(pending, FirstAccount(s))
                    /\ UNCHANGED signer
               ELSE /\ signer' = Null
                    /\ UNCHANGED pending
       ELSE UNCHANGED <<account, signer, pending>>
    /\ connectSt' = IF ownSub THEN Overwritten(connectSt, FirstAccount(s) = Null)
                    ELSE connectSt
    /\ pristine' = (pristine /\ ~HasActiveAccount(s))
    /\ justDisconnected' = FALSE
    /\ ret' = [op |-> "emit", state |-> s, calls |-> AddressCalls(s)]
    /\ UNCHANGED <<eventVars, disconnectSt, syncSt, constructed>>

\* DeriveResolve with the result dropped when account has moved on since the
\* derivation was started
DeriveResolveChecked(a) ==
    /\ pending[a] > 0
    /\ pending' = [pending EXCEPT ![a] = @ - 1]
    /\ signer' = IF account = a THEN SignerFor(a) ELSE signer
    /\ connectSt' = Overwritten(connectSt, FALSE)
    /\ ret' = [op |-> "derived", outcome |-> "resolved", address |-> a,
               previous |-> signer]
    /\ UNCHANGED <<account, eventVars, disconnectSt, syncSt, constructed, pristine,
                   justDisconnected>>

\* a fire-and-forget derivation resolves: .then((signer) => this.signer = signer)
DeriveResolve(a) ==
    /\ pending[a] > 0
    /\ pending' = [pending EXCEPT ![a] = @ - 1]
    /\ signer' = SignerFor(a)
    /\ connectSt' = Overwritten(connectSt, FALSE)
    /\ ret' = [op |-> "derived", outcome |-> "resolved", address |-> a,
               previous |-> signer]
    /\ UNCHANGED <<account, eventVars, disconnectSt, syncSt, constructed, pristine,
                   justDisconnected>>

\* a fire-and-forget derivation rejects: .catch(console.error)
DeriveReject(a) ==
    /\ pending[a] > 0
    /\ pending' = [pending EXCEPT ![a] = @ - 1]
    /\ ret' = [op |-> "derived", outcome |-> "logged", address |-> a]
    /\ UNCHANGED <<account, signer, eventVars, callVars, constructed, pristine,
                   justDisconnected>>

\* ----------------------------------------------------------------- sync
\* a caller invokes sync(): it runs up to its await of reconnect
SyncCall ==
    /\ syncSt.pc = "idle"
    /\ InFlight < MaxCalls
    /\ syncSt' = [pc |-> "awaitReconnect"]
    /\ justDisconnected' = FALSE
    /\ ret' = [op |-> "call", method |-> "sync"]
    /\ UNCHANGED <<account, signer, eventVars, pending, connectSt, disconnectSt,
                   constructed, pristine>>

\* SyncResume taking the else branch whatever account holds
SyncResumeClears(ok) ==
    /\ syncSt.pc = "awaitReconnect"
    /\ syncSt' = Idle
    /\ constructed' = TRUE
    /\ IF ok
       THEN /\ signer' = Null
            /\ connectSt' = Overwritten(connectSt, FALSE)
            /\ ret' = [op |-> "sync", outcome |-> "resolved"]
       ELSE /\ UNCHANGED <<signer, connectSt>>
            /\ ret' = [op |-> "sync", outcome |-> "rejected"]
    /\ justDisconnected' = FALSE
    /\ UNCHANGED <<account, eventVars, pending, disconnectSt, pristine>>

\* reconnect settles and sync() runs to its end; no try/catch surrounds the await
SyncResume(ok) ==
    /\ syncSt.pc = "awaitReconnect"
    /\ syncSt' = Idle
    /\ constructed' = TRUE
    /\ IF ok
       THEN /\ IF account # Null
               THEN /\ PendingCount < MaxPending
                    /\ pending' = Dispatch(pending, account)
                    /\ UNCHANGED signer
               ELSE /\ signer' = Null
                    /\ UNCHANGED pending
            /\ connectSt' = IF account = Null THEN Overwritten(connectSt, FALSE)
                            ELSE connectSt
            /\ ret' = [op |-> "sync", outcome |-> "resolved"]
       ELSE /\ UNCHANGED <<signer, pending, connectSt>>
            /\ ret' = [op |-> "sync", outcome |-> "rejected"]
    /\ justDisconnected' = FALSE
    /\ UNCHANGED <<account, eventVars, disconnectSt, pristine>>

\* -------------------------------------------------------------- connect
\* a caller invokes connect(): it runs up to its await of the connector
ConnectCall ==
    /\ connectSt.pc = "idle"
    /\ InFlight < MaxCalls
    /\ connectSt' = [pc |-> "awaitConnect", before |-> <<account, signer>>,
                     acct |-> Null, touched |-> FALSE, cleared |-> FALSE]
    /\ pristine' = FALSE
    /\ justDisconnected' = FALSE
    /\ ret' = [op |-> "call", method |-> "connect"]
    /\ UNCHANGED <<account, signer, eventVars, pending, disconnectSt, syncSt,
                   constructed>>

\* the connector's connect resolves with accounts: this.account is set and
\* connect() suspends again, at its await of getEthersSigner
ConnectorResolves(accts) ==
    /\ connectSt.pc = "awaitConnect"
    /\ account' = accts[1]
    /\ connectSt' = [connectSt EXCEPT !.pc = "awaitSigner", !.acct = accts[1]]
    /\ justDisconnected' = FALSE
    /\ ret' = [op |-> "resumed", method |-> "connect"]
    /\ UNCHANGED <<signer, eventVars, pending, disconnectSt, syncSt, constructed,
                   pristine>>

\* the connector's connect rejects: caught, logged, connect() returns
ConnectorRejects ==
    /\ connectSt.pc = "awaitConnect"
    /\ connectSt' = Idle
    /\ ret' = [op |-> "connect", outcome |-> "resolved", connector |-> "rejected",
               derivation |-> "none", before |-> connectSt.before,
               touched |-> connectSt.touched, cleared |-> connectSt.cleared]
    /\ UNCHANGED <<account, signer, eventVars, pending, disconnectSt, syncSt,
                   constructed, pristine, justDisconnected>>

\* SignerResolves with the derivation not awaited, as in the listener:
\* connect() returns at once and the signer arrives later
SignerResolvesDetached ==
    /\ connectSt.pc = "awaitSigner"
    /\ PendingCount < MaxPending
    /\ pending' = Dispatch(pending, connectSt.acct)
    /\ connectSt' = Idle
    /\ justDisconnected' = FALSE
    /\ ret' = [op |-> "connect", outcome |-> "resolved", connector |-> "ok",
               derivation |-> "ok", before |-> connectSt.before,
               touched |-> connectSt.touched, cleared |-> connectSt.cleared]
    /\ UNCHANGED <<account, signer, eventVars, disconnectSt, syncSt, constructed,
                   pristine>>

\* the awaited getEthersSigner resolves: this.signer is set, connect() returns
SignerResolves ==
    /\ connectSt.pc = "awaitSigner"
    /\ signer' = SignerFor(connectSt.acct)
    /\ connectSt' = Idle
    /\ justDisconnected' = FALSE
    /\ ret' = [op |-> "connect", outcome |-> "resolved", connector |-> "ok",
               derivation |-> "ok", before |-> connectSt.before,
               touched |-> connectSt.touched, cleared |-> connectSt.cleared]
    /\ UNCHANGED <<account, eventVars, pending, disconnectSt, syncSt, constructed,
                   pristine>>

\* the awaited getEthersSigner rejects: caught, logged, connect() returns
SignerRejects ==
    /\ connectSt.pc = "awaitSigner"
    /\ connectSt' = Idle
    /\ ret' = [op |-> "connect", outcome |-> "resolved", connector |-> "ok",
               derivation |-> "rejected", before |-> connectSt.before,
               touched |-> connectSt.touched, cleared |-> connectSt.cleared]
    /\ UNCHANGED <<account, signer, eventVars, pending, disconnectSt, syncSt,
                   constructed, pristine, justDisconnected>>

\* ----------------------------------------------------------- disconnect
\* a caller invokes disconnect(): it runs up to its await of the connector
DisconnectCall ==
    /\ disconnectSt.pc = "idle"
    /\ InFlight < MaxCalls
    /\ disconnectSt' = [pc |-> "awaitDisconnect"]
    /\ justDisconnected' = FALSE
    /\ ret' = [op |-> "call", method |-> "disconnect"]
    /\ UNCHANGED <<account, signer, eventVars, pending, connectSt, syncSt,
                   constructed, pristine>>

\* DisconnectResume with the assignment this.signer = null left out
DisconnectResumeAccountOnly(ok) ==
    /\ disconnectSt.pc = "awaitDisconnect"
    /\ disconnectSt' = Idle
    /\ IF ok
       THEN /\ account' = Null
            /\ connectSt' = Overwritten(connectSt, TRUE)
       ELSE UNCHANGED <<account, connectSt>>
    /\ justDisconnected' = ok
    /\ ret' = [op |-> "disconnect", outcome |-> "resolved",
               connector |-> IF ok THEN "ok" ELSE "rejected",
               before |-> <<account, signer>>]
    /\ UNCHANGED <<signer, eventVars, pending, syncSt, constructed, pristine>>

\* the connector's disconnect settles: on success both fields are cleared,
\* on failure the catch block logs; either way disconnect() returns
DisconnectResume(ok) ==
    /\ disconnectSt.pc = "awaitDisconnect"
    /\ disconnectSt' = Idle
    /\ IF ok
       THEN /\ account' = Null
            /\ signer' = Null
            /\ connectSt' = Overwritten(connectSt, TRUE)
       ELSE UNCHANGED <<account, signer, connectSt>>
    /\ justDisconnected' = ok
    /\ ret' = [op |-> "disconnect", outcome |-> "resolved",
               connector |-> IF ok THEN "ok" ELSE "rejected",
               before |-> <<account, signer>>]
    /\ UNCHANGED <<eventVars, pending, syncSt, constructed, pristine>>

\* -------------------------------------------------------------- signing
\* SignWith with the guard on this.account instead of this.signer: with an
\* account and no signer the call on the null signer throws a TypeError
SignWithAccountGuard(op, call) ==
    /\ IF account = Null
       THEN ret' = [op |-> op, outcome |-> "rejected", error |-> "Signer not available",
                    external |-> {}, before |-> <<account, signer>>,
                    afterDisconnect |-> justDisconnected]
       ELSE \E ok \in BOOLEAN :
               ret' = [op |-> op,
                       outcome |-> IF ok /\ signer # Null THEN "resolved" ELSE "rejected",
                       error |-> IF signer = Null THEN "TypeError"
                                 ELSE IF ok THEN "none" ELSE "signer error",
                       external |-> IF signer = Null THEN {} ELSE {call},
                       before |-> <<account, signer>>,
                       afterDisconnect |-> justDisconnected]
    /\ justDisconnected' = FALSE
    /\ UNCHANGED <<account, signer, eventVars, pending, callVars, constructed, pristine>>

\* signMessage / signTransaction: the guard on this.signer, then the signer call
SignWith(op, call) ==
    /\ IF signer = Null
       THEN ret' = [op |-> op, outcome |-> "rejected", error |-> "Signer not available",
                    external |-> {}, before |-> <<account, signer>>,
                    afterDisconnect |-> justDisconnected]
       ELSE \E ok \in BOOLEAN :
               ret' = [op |-> op, outcome |-> IF ok THEN "resolved" ELSE "rejected",
                       error |-> IF ok THEN "none" ELSE "signer error",
                       external |-> {call}, before |-> <<account, signer>>,
                       afterDisconnect |-> justDisconnected]
    /\ justDisconnected' = FALSE
    /\ UNCHANGED <<account, signer, eventVars, pending, callVars, constructed, pristine>>

SignMessage == SignWith("signMessage", "signer.signMessage")

SignTransaction == SignWith("signTransaction", "signer.sendTransaction")

\* SignDataItem without the guard on this.signer
SignDataItemUnguarded ==
    /\ \E ok \in BOOLEAN :
          ret' = [op |-> "signDataItem", outcome |-> IF ok THEN "resolved" ELSE "rejected",
                  error |-> IF ok THEN "none" ELSE "signer error",
                  external |-> {"createDataItemSigner", "dataItemSigner"},
                  before |-> <<account, signer>>,
                  afterDisconnect |-> justDisconnected]
    /\ justDisconnected' = FALSE
    /\ UNCHANGED <<account, signer, eventVars, pending, callVars, constructed, pristine>>

\* signDataItem: the guard on this.signer, then createDataItemSigner() and the
\* call of the capability it returns on the data item
SignDataItem ==
    /\ IF signer = Null
       THEN ret' = [op |-> "signDataItem", outcome |-> "rejected",
                    error |-> "Signer not available", external |-> {},
                    before |-> <<account, signer>>,
                    afterDisconnect |-> justDisconnected]
       ELSE \E ok \in BOOLEAN :
               ret' = [op |-> "signDataItem",
                       outcome |-> IF ok THEN "resolved" ELSE "rejected",
                       error |-> IF ok THEN "none" ELSE "signer error",
                       external |-> {"createDataItemSigner", "dataItemSigner"},
                       before |-> <<account, signer>>,
                       afterDisconnect |-> justDisconnected]
    /\ justDisconnected' = FALSE
    /\ UNCHANGED <<account, signer, eventVars, pending, callVars, constructed, pristine>>

\* ------------------------------------------------- unsupported operations
\* Unsupported with the error logged instead of thrown: the promise resolves
UnsupportedLogged(op, message) ==
    /\ ret' = [op |-> op, outcome |-> "resolved", error |-> message,
               before |-> <<account, signer, ownSub, listeners>>]
    /\ justDisconnected' = FALSE
    /\ UNCHANGED <<account, signer, eventVars, pending, callVars, constructed, pristine>>

\* an async method whose body is a throw: the returned promise rejects
Unsupported(op, message) ==
    /\ ret' = [op |-> op, outcome |-> "rejected", error |-> message,
               before |-> <<account, signer, ownSub, listeners>>]
    /\ justDisconnected' = FALSE
    /\ UNCHANGED <<account, signer, eventVars, pending, callVars, constructed, pristine>>

DispatchTx == Unsupported("dispatch", "Method not available on ethereum wallets.")

AddToken == Unsupported("addToken", "Method not available on ethereum wallets")

Sign ==
    Unsupported("sign",
                "Method not available on ethereum wallets - use signDataItem instead")

GetWalletNames == Unsupported("getWalletNames", "Method not available on ethereum wallets.")

\* -------------------------------------------------------- address events
\* addAddressEvent(fn): a further subscription to the store; returns its handle
AddAddressEvent(fn) ==
    /\ Len(listeners) < MaxSubs
    /\ listeners' = Append(listeners, [fn |-> fn, live |-> TRUE])
    /\ justDisconnected' = FALSE
    /\ ret' = [op |-> "addAddressEvent", handle |-> Len(listeners) + 1]
    /\ UNCHANGED <<account, signer, ownSub, unsubCalls, pending, callVars,
                   constructed, pristine>>

\* the closure addAddressEvent returned: (e) => unsubscribe()
Detach(ls, i) == [ls EXCEPT ![i].live = FALSE]

\* a caller invokes the handle of subscription i
InvokeHandle(i) ==
    /\ i \in 1..Len(listeners)
    /\ listeners' = Detach(listeners, i)
    /\ justDisconnected' = FALSE
    /\ ret' = [op |-> "handle", handle |-> i]
    /\ UNCHANGED <<account, signer, ownSub, unsubCalls, pending, callVars,
                   constructed, pristine>>

\* RemoveAddressEvent with the handle called but detaching nothing
RemoveAddressEventNoop(i) ==
    /\ i \in 1..Len(listeners)
    /\ justDisconnected' = FALSE
    /\ ret' = [op |-> "removeAddressEvent", kind |-> "handle", argument |-> i,
               invoked |-> 1, event |-> IF account = Null THEN "" ELSE account,
               before |-> <<ownSub, listeners>>]
    /\ UNCHANGED <<account, signer, eventVars, pending, callVars, constructed, pristine>>

\* removeAddressEvent(l): calls l with a synthetic event; l is the handle of
\* subscription i
RemoveAddressEvent(i) ==
    /\ i \in 1..Len(listeners)
    /\ listeners' = Detach(listeners, i)
    /\ justDisconnected' = FALSE
    /\ ret' = [op |-> "removeAddressEvent", kind |-> "handle", argument |-> i,
               invoked |-> 1, event |-> IF account = Null THEN "" ELSE account,
               before |-> <<ownSub, listeners>>]
    /\ UNCHANGED <<account, signer, ownSub, unsubCalls, pending, callVars,
                   constructed, pristine>>

\* removeAddressEvent(l) with l a plain function fn
RemoveAddressEventFn(fn) ==
    /\ justDisconnected' = FALSE
    /\ ret' = [op |-> "removeAddressEvent", kind |-> "function", argument |-> fn,
               invoked |-> 1, event |-> IF account = Null THEN "" ELSE account,
               before |-> <<ownSub, listeners>>]
    /\ UNCHANGED <<account, signer, eventVars, pending, callVars, constructed, pristine>>

\* CleanupListeners counting the call but leaving the subscription attached
CleanupListenersForgets ==
    /\ unsubCalls < MaxCleanup
    /\ unsubCalls' = unsubCalls + 1
    /\ justDisconnected' = FALSE
    /\ ret' = [op |-> "cleanupListeners"]
    /\ UNCHANGED <<account, signer, ownSub, listeners, pending, callVars, constructed,
                   pristine>>

\* CleanupListeners releasing the addAddressEvent subscriptions as well
CleanupListenersAll ==
    /\ unsubCalls < MaxCleanup
    /\ ownSub' = FALSE
    /\ unsubCalls' = unsubCalls + 1
    /\ listeners' = [i \in 1..Len(listeners) |-> [listeners[i] EXCEPT !.live = FALSE]]
    /\ justDisconnected' = FALSE
    /\ ret' = [op |-> "cleanupListeners"]
    /\ UNCHANGED <<account, signer, pending, callVars, constructed, pristine>>

\* cleanupListeners(): invokes the stored unsubscribe handle when it is set;
\* setupListeners set it at construction and nothing resets it
CleanupListeners ==
    /\ unsubCalls < MaxCleanup
    /\ ownSub' = FALSE
    /\ unsubCalls' = unsubCalls + 1
    /\ justDisconnected' = FALSE
    /\ ret' = [op |-> "cleanupListeners"]
    /\ UNCHANGED <<account, signer, listeners, pending, callVars, constructed, pristine>>

\* --------------------------------------------------------- specifications
\* the lifecycle: calls, store emissions and derivations interleaved
Next ==
    \/ \E s \in StoreStates : Emit(s)
    \/ \E a \in Addr : DeriveResolve(a)
    \/ \E a \in Addr : DeriveReject(a)
    \/ SyncCall
    \/ \E ok \in BOOLEAN : SyncResume(ok)
    \/ ConnectCall
    \/ \E accts \in AccountLists \ {<<>>} : ConnectorResolves(accts)
    \/ ConnectorRejects
    \/ SignerResolves
    \/ SignerRejects
    \/ DisconnectCall
    \/ \E ok \in BOOLEAN : DisconnectResume(ok)
    \/ SignMessage
    \/ SignTransaction
    \/ SignDataItem
    \/ DispatchTx
    \/ AddToken
    \/ Sign
    \/ GetWalletNames

Spec == Init /\ [][Next]_vars

\* the subscriptions: every store state emitted, listeners added and detached
NextEvents ==
    \/ \E s \in StoreStates : Emit(s)
    \/ \E a \in Addr : DeriveResolve(a)
    \/ \E a \in Addr : DeriveReject(a)
    \/ \E ok \in BOOLEAN : SyncResume(ok)
    \/ \E fn \in Fns : AddAddressEvent(fn)
    \/ \E i \in 1..MaxSubs : InvokeHandle(i)
    \/ \E i \in 1..MaxSubs : RemoveAddressEvent(i)
    \/ \E fn \in Fns : RemoveAddressEventFn(fn)
    \/ CleanupListeners
    \/ DispatchTx
    \/ AddToken
    \/ Sign
    \/ GetWalletNames

SpecEvents == Init /\ [][NextEvents]_vars

\* a session restored by sync(): while reconnect is awaited the store emits
\* states without an account until the restored account is named, and states
\* naming that account from then on
RestoreEmit(s) ==
    /\ syncSt.pc = "awaitReconnect"
    /\ IF HasActiveAccount(s)
       THEN account \in {Null, s.connections[s.current][1]}
       ELSE account = Null
    /\ Emit(s)

\* reconnect resolves after it restored the account
SyncRestored ==
    /\ account # Null
    /\ SyncResume(TRUE)

NextSync ==
    \/ \E s \in StoreStates : RestoreEmit(s)
    \/ \E a \in Addr : DeriveResolve(a)
    \/ SyncCall
    \/ SyncRestored

\* every signer derivation started resolves
SpecSync ==
    /\ Init
    /\ [][NextSync]_vars
    /\ WF_vars(\E a \in Addr : DeriveResolve(a))

\* ------------------------------------------------------------------ claims
\* the account an emission names, read off the emitted state
NamedAccount(s) ==
    IF HasActiveAccount(s) THEN Head(s.connections[s.current]) ELSE Null

\* C1: right after an emission is delivered to the constructor-time listener,
\* account is the first account of the connection the emission's current key
\* names, or null when current is unset or that connection holds no account,
\* whatever was emitted or called before
C1_AccountTracksEmission ==
    (ret.op = "emit" /\ ownSub) => account = NamedAccount(ret.state)

\* an emission naming c1, whose accounts are B then A, arrives while the signer
\* of an earlier emission of A is cached and another connection is present
C1_Witness ==
    /\ ret.op = "emit"
    /\ ret.state.current = "c1"
    /\ DOMAIN ret.state.connections = {"c1", "c2"}
    /\ ret.state.connections["c1"] = <<"B", "A">>
    /\ account = "B"
    /\ signer = "sA"

\* C2 (as amended): when connect() returns after the connector's connect and
\* the awaited signer derivation both succeeded, signer is non-null; account is
\* non-null too unless an emission without an active account or a successful
\* disconnect() cleared it while connect() awaited the derivation
C2_ConnectLeavesSigner ==
    (ret.op = "connect" /\ ret.connector = "ok" /\ ret.derivation = "ok")
        => /\ signer # Null
           /\ account = Null => ret.cleared

\* C2 (as stated): when connect() returns after the connector's connect
\* succeeded, account and signer are both non-null, in every interleaving
C2_Original ==
    (ret.op = "connect" /\ ret.connector = "ok")
        => (account # Null /\ signer # Null)

\* connect() returns with both fields set while a derivation started by an
\* emission delivered during the call is still in flight
C2_Witness ==
    /\ ret.op = "connect"
    /\ ret.connector = "ok"
    /\ ret.derivation = "ok"
    /\ ~ret.cleared
    /\ account # Null
    /\ signer # Null
    /\ PendingCount > 0

\* C3: a signMessage made right after a successful disconnect() returned, with
\* no call and no emission in between, fails with "Signer not available"
C3_SignAfterDisconnectFails ==
    (ret.op = "signMessage" /\ ret.afterDisconnect)
        => (ret.outcome = "rejected" /\ ret.error = "Signer not available")

\* C4: with signer null, signMessage and signTransaction fail with "Signer not
\* available", call nothing outside the adapter and leave account and signer
C4_NoSignerFailsFast ==
    (ret.op \in {"signMessage", "signTransaction"} /\ ret.before[2] = Null)
        => /\ ret.outcome = "rejected"
           /\ ret.error = "Signer not available"
           /\ ret.external = {}
           /\ account = ret.before[1]
           /\ signer = ret.before[2]

\* signTransaction is called with an account set and no signer yet
C4_Witness ==
    /\ ret.op = "signTransaction"
    /\ ret.before[2] = Null
    /\ account # Null
    /\ ret.outcome = "rejected"

UnsupportedOps == {"dispatch", "addToken", "sign", "getWalletNames"}

\* C5: dispatch, addToken, sign and getWalletNames reject in every state and
\* change neither account, signer nor any subscription
C5_UnsupportedAlwaysFail ==
    ret.op \in UnsupportedOps
        => /\ ret.outcome = "rejected"
           /\ ret.before = <<account, signer, ownSub, listeners>>

\* dispatch is called with an account, a cached signer and a listener attached
C5_Witness ==
    /\ ret.op = "dispatch"
    /\ ret.outcome = "rejected"
    /\ account # Null
    /\ signer # Null
    /\ \E i \in 1..Len(listeners) : listeners[i].live

\* C6 (as amended): when disconnect() returns after the connector's disconnect
\* succeeded, account and signer are null, connected beforehand or not; after
\* the connector's disconnect failed both hold what they held
C6_DisconnectClearsOnSuccess ==
    ret.op = "disconnect"
        => IF ret.connector = "ok"
           THEN account = Null /\ signer = Null
           ELSE <<account, signer>> = ret.before

\* C6 (as stated): after any disconnect() returns, account and signer are null
C6_Original ==
    ret.op = "disconnect" => (account = Null /\ signer = Null)

\* a successful disconnect() of an adapter that held an account and a signer
C6_Witness ==
    /\ ret.op = "disconnect"
    /\ ret.connector = "ok"
    /\ ret.before[1] # Null
    /\ ret.before[2] # Null
    /\ account = Null
    /\ signer = Null

\* C7: when connect() fails, at the connector or at the signer derivation,
\* account and signer hold after the call what they held before it (stated
\* for the calls during which nothing but connect() itself wrote the fields)
C7_FailedConnectKeepsState ==
    (/\ ret.op = "connect"
     /\ ret.connector = "rejected" \/ ret.derivation = "rejected"
     /\ ~ret.touched)
        => <<account, signer>> = ret.before

\* C8: connect(), disconnect() and sync() never reject
C8_NeverRejects ==
    ret.op \in {"connect", "disconnect", "sync"} => ret.outcome = "resolved"

\* C9: constructed with no prior session (no emission with an active account,
\* no connect()), account and signer are null once the constructor's sync()
\* has settled and no derivation is in flight
C9_NoSessionLeavesNull ==
    (constructed /\ pristine /\ PendingCount = 0)
        => (account = Null /\ signer = Null)

\* the constructor's sync() has settled after the store emitted a state with
\* connections and no current key
C9_Witness ==
    /\ constructed
    /\ pristine
    /\ PendingCount = 0
    /\ ret.op = "emit"
    /\ ret.state.current = Null
    /\ DOMAIN ret.state.connections # {}
    /\ account = Null
    /\ signer = Null

\* the invocations of fn an emission made
CallsOf(fn) == SelectSeq(ret.calls, LAMBDA c : c.fn = fn)

\* the subscriptions of fn opened by addAddressEvent and still attached
LiveOf(fn) == SelectSeq(listeners, LAMBDA l : l.live /\ l.fn = fn)

\* C10: an emission whose active connection has a first account invokes fn
\* once for each attached addAddressEvent(fn) subscription (exactly once after
\* one addAddressEvent(fn)), each time with that address; an emission with no
\* active connection or no account does not invoke fn
C10_ListenerInvokedOnce ==
    ret.op = "emit"
        => \A fn \in Fns :
              IF NamedAccount(ret.state) # Null
              THEN /\ Len(CallsOf(fn)) = Len(LiveOf(fn))
                   /\ Len(LiveOf(fn)) = 1 => Len(CallsOf(fn)) = 1
                   /\ \A i \in 1..Len(CallsOf(fn)) :
                         CallsOf(fn)[i].address = NamedAccount(ret.state)
              ELSE Len(CallsOf(fn)) = 0

\* after one addAddressEvent(f1), an emission naming B invokes f1 once with B
C10_Witness ==
    /\ ret.op = "emit"
    /\ Len(LiveOf("f1")) = 1
    /\ Len(ret.calls) = 1
    /\ ret.calls[1].fn = "f1"
    /\ ret.calls[1].address = "B"
    /\ NamedAccount(ret.state) = "B"

\* C11: signer is non-null only while account is non-null (signer is non-null
\* if and only if account is non-null and a derivation has resolved; stated here
\* is the part the claim singles out: never a signer with a null account)
C11_SignerImpliesAccount ==
    signer # Null => account # Null

\* C12: over any sequence of cleanupListeners() calls the unsubscribe handle
\* stored at construction is invoked at most once
C12_UnsubscribeAtMostOnce ==
    unsubCalls <= 1

\* ------------------------------------------------------- encrypt / decrypt
\* longest byte sequence handed to encrypt
MaxLen == 3

\* the bytes the inputs are made of: "A", the two bytes of U+00E9, and 0xFF
ByteSamples == {65, 195, 169, 255}

ByteSeqs == UNION {[1..n -> ByteSamples] : n \in 0..MaxLen}

\* the keys of the provider's mock key pairs
Keys == {1, 7}

\* new TextDecoder().decode(bytes): the code points of the UTF-8 text; a byte
\* that starts no well-formed sequence becomes U+FFFD (sequences of one to
\* three bytes are decoded; the inputs hold no lead byte of a longer one)
RECURSIVE Utf8Decode(_)
Utf8Decode(bs) ==
    IF bs = <<>> THEN <<>>
    ELSE IF bs[1] < 128 THEN <<bs[1]>> \o Utf8Decode(Tail(bs))
    ELSE IF /\ bs[1] >= 194
            /\ bs[1] <= 223
            /\ Len(bs) >= 2
            /\ bs[2] >= 128
            /\ bs[2] <= 191
         THEN <<(bs[1] - 192) * 64 + (bs[2] - 128)>> \o Utf8Decode(Tail(Tail(bs)))
    ELSE IF /\ bs[1] >= 224
            /\ bs[1] <= 239
            /\ Len(bs) >= 3
            /\ bs[2] >= 128
            /\ bs[2] <= 191
            /\ bs[3] >= 128
            /\ bs[3] <= 191
         THEN <<(bs[1] - 224) * 4096 + (bs[2] - 128) * 64 + (bs[3] - 128)>>
              \o Utf8Decode(Tail(Tail(Tail(bs))))
    ELSE <<65533>> \o Utf8Decode(Tail(bs))

\* new TextEncoder().encode(text): the UTF-8 bytes of the code points
RECURSIVE Utf8Encode(_)
Utf8Encode(cps) ==
    IF cps = <<>> THEN <<>>
    ELSE (IF cps[1] < 128 THEN <<cps[1]>>
          ELSE IF cps[1] < 2048
               THEN <<192 + (cps[1] \div 64), 128 + (cps[1] % 64)>>
          ELSE <<224 + (cps[1] \div 4096), 128 + ((cps[1] \div 64) % 64),
                 128 + (cps[1] % 64)>>)
         \o Utf8Encode(Tail(cps))

\* byte.toString(16).padStart(2, "0"): the two hex digits of a byte, as characters
HexChar(n) == IF n < 10 THEN 48 + n ELSE 87 + n

HexValue(c) == IF c < 58 THEN c - 48 ELSE c - 87

RECURSIVE Hex(_)
Hex(bs) ==
    IF bs = <<>> THEN <<>>
    ELSE <<HexChar(bs[1] \div 16), HexChar(bs[1] % 16)>> \o Hex(Tail(bs))

RECURSIVE Unhex(_)
Unhex(cs) ==
    IF Len(cs) < 2 THEN <<>>
    ELSE <<HexValue(cs[1]) * 16 + HexValue(cs[2])>> \o Unhex(Tail(Tail(cs)))

\* the mock of the box: the UTF-8 bytes of the text shifted by the key, and
\* JSON.stringify of the envelope, an ASCII text holding their hex digits
BoxEncrypt(text, key) ==
    Hex([i \in 1..Len(Utf8Encode(text)) |-> (Utf8Encode(text)[i] + key) % 256])

\* the mock provider's eth_decrypt: reads the hex payload back to the envelope
\* text, opens the box with the key and answers the clear text
EthDecrypt(hexData, key) ==
    LET envelope == Unhex(hexData)
        boxed == Unhex(envelope)
    IN  Utf8Decode([i \in 1..Len(boxed) |-> (boxed[i] + 256 - key) % 256])

\* encrypt(data): decode the bytes to text, box the text, encode the JSON
EncryptBytes(data, key) == Utf8Encode(BoxEncrypt(Utf8Decode(data), key))

\* decrypt(data): decode and re-encode the bytes, hex them, ask the provider;
\* the provider's answer is returned as it is
DecryptBytes(data, key) == EthDecrypt(Hex(Utf8Encode(Utf8Decode(data))), key)

\* an adapter and a caller holding the bytes to encrypt
InitCrypto ==
    /\ account = Null
    /\ signer = Null
    /\ ownSub = TRUE
    /\ unsubCalls = 0
    /\ listeners = <<>>
    /\ pending = [a \in Addr |-> 0]
    /\ connectSt = Idle
    /\ disconnectSt = Idle
    /\ syncSt = [pc |-> "awaitReconnect"]
    /\ constructed = FALSE
    /\ pristine = TRUE
    /\ justDisconnected = FALSE
    /\ ret \in {[op |-> "data", data |-> d, key |-> k] : d \in ByteSeqs, k \in Keys}

\* encrypt(data) on the caller's bytes
Encrypt ==
    /\ ret.op = "data"
    /\ ret' = [op |-> "encrypt", data |-> ret.data, key |-> ret.key,
               out |-> EncryptBytes(ret.data, ret.key)]
    /\ UNCHANGED <<account, signer, eventVars, pending, callVars, constructed,
                   pristine, justDisconnected>>

\* decrypt(data) on what encrypt returned
Decrypt ==
    /\ ret.op = "encrypt"
    /\ ret' = [op |-> "decrypt", data |-> ret.data, key |-> ret.key,
               out |-> DecryptBytes(ret.out, ret.key)]
    /\ UNCHANGED <<account, signer, eventVars, pending, callVars, constructed,
                   pristine, justDisconnected>>

NextCrypto ==
    \/ Encrypt
    \/ Decrypt

SpecCrypto == InitCrypto /\ [][NextCrypto]_vars

\* C13: decrypt(encrypt(d)) yields the bytes of d, for every byte sequence d
\* (the provider's answer is a text: its UTF-8 bytes are compared)
C13_RoundTrip ==
    ret.op = "decrypt" => Utf8Encode(ret.out) = ret.data

\* C14: the derivation that resolves last decides signer, whatever account
\* holds by then; so emissions of A then B, with B's derivation resolving
\* before A's, leave account = B and signer the signer derived for A
C14_LastResolvedWins ==
    (ret.op = "derived" /\ ret.outcome = "resolved")
        => signer = SignerFor(ret.address)

\* the derivation started for A resolves after the one started for B did,
\* with account at B and nothing else in flight
C14_Witness ==
    /\ ret.op = "derived"
    /\ ret.outcome = "resolved"
    /\ ret.address = "A"
    /\ ret.previous = SignerFor("B")
    /\ account = "B"
    /\ signer = SignerFor("A")
    /\ PendingCount = 0

\* the invocations an emission made through subscription i
CallsVia(i) == SelectSeq(ret.calls, LAMBDA c : c.sub = i)

\* C15: the addAddressEvent subscriptions and the constructor-time one are
\* independent. An emission invokes a listener through each subscription that
\* is still attached (once, when the emission names an account) and through
\* none whose handle was invoked, whether or not cleanupListeners() was
\* called, while account follows the emission as long as the adapter's own
\* subscription is attached; invoking a handle detaches that subscription only
\* and leaves the adapter's own; cleanupListeners() leaves every
\* addAddressEvent subscription as it was; a detached one stays detached
C15_SubscriptionsIndependent ==
    /\ [](ret.op = "emit"
            => /\ \A i \in 1..Len(listeners) :
                     Len(CallsVia(i)) =
                        IF listeners[i].live /\ NamedAccount(ret.state) # Null
                        THEN 1 ELSE 0
               /\ ownSub => account = NamedAccount(ret.state))
    /\ [][/\ ret'.op = "handle"
             => /\ ownSub' = ownSub
                /\ unsubCalls' = unsubCalls
                /\ ~listeners'[ret'.handle].live
                /\ \A i \in 1..Len(listeners) :
                      i # ret'.handle => listeners'[i] = listeners[i]
          /\ ret'.op = "cleanupListeners" => listeners' = listeners
          /\ \A i \in 1..Len(listeners) :
                ~listeners[i].live => ~listeners'[i].live]_vars

\* after cleanupListeners() and after the handle of the first subscription was
\* invoked, an emission naming B invokes the listener of the second
\* subscription only, and account keeps the A it held
C15_Witness ==
    /\ ret.op = "emit"
    /\ unsubCalls > 0
    /\ Len(listeners) = 2
    /\ ~listeners[1].live
    /\ listeners[2].live
    /\ NamedAccount(ret.state) = "B"
    /\ Len(ret.calls) = 1
    /\ ret.calls[1].sub = 2
    /\ account = "A"

\* C16 (as amended): removeAddressEvent(l) invokes l exactly once and detaches
\* nothing itself: the adapter's own subscription is as before, and so is
\* every addAddressEvent subscription, except that when l is the handle
\* addAddressEvent returned, that invocation detaches the handle's subscription
C16_RemoveInvokesArgument ==
    ret.op = "removeAddressEvent"
        => /\ ret.invoked = 1
           /\ ownSub = ret.before[1]
           /\ listeners = IF ret.kind = "handle"
                          THEN Detach(ret.before[2], ret.argument)
                          ELSE ret.before[2]

\* C16 (as stated): for every argument l, the handle addAddressEvent returned
\* included, the subscriptions are the same after removeAddressEvent(l) as
\* before it, and l is invoked exactly once
C16_Original ==
    ret.op = "removeAddressEvent"
        => /\ ret.invoked = 1
           /\ <<ownSub, listeners>> = ret.before

\* removeAddressEvent is handed the handle of the first of two attached
\* subscriptions: the first is detached, the second still attached
C16_Witness ==
    /\ ret.op = "removeAddressEvent"
    /\ ret.kind = "handle"
    /\ ret.argument = 1
    /\ Len(listeners) = 2
    /\ ret.before[2][1].live
    /\ ~listeners[1].live
    /\ listeners[2].live
    /\ ownSub

\* C17 (as amended): signDataItem constructs a data-item-signing capability
\* through createDataItemSigner on every call made while signer is non-null;
\* with signer null it fails with "Signer not available" and constructs
\* nothing; either way account and signer are left as they were
C17_SignDataItemGuarded ==
    ret.op = "signDataItem"
        => /\ IF ret.before[2] = Null
              THEN /\ ret.outcome = "rejected"
                   /\ ret.error = "Signer not available"
                   /\ ret.external = {}
              ELSE "createDataItemSigner" \in ret.external
           /\ <<account, signer>> = ret.before

\* C17 (as stated): signDataItem constructs the capability through
\* createDataItemSigner on every call, in every state, signer null included
C17_Original ==
    ret.op = "signDataItem" => "createDataItemSigner" \in ret.external

\* signDataItem is called with an account set and no signer cached yet
C17_Witness ==
    /\ ret.op = "signDataItem"
    /\ ret.before[1] # Null
    /\ ret.before[2] = Null
    /\ ret.outcome = "rejected"
    /\ ret.external = {}

\* C18: when sync() runs and reconnect restores an account, and every signer
\* derivation succeeds, signer eventually is, and stays, the signer derived for
\* the restored account; sync() itself never changes account, and whenever
\* sync() has returned and no derivation is in flight, after the first call
\* or a later one, signer is the signer of the restored account
C18_SyncRestoresAndIsIdempotent ==
    /\ (account # Null) ~> [](signer = SignerFor(account))
    /\ []((constructed /\ syncSt.pc = "idle" /\ PendingCount = 0 /\ account # Null)
            => signer = SignerFor(account))
    /\ [][account # Null => account' = account]_vars

\* sync() is called a second time in the restored state: the constructor's
\* sync() has returned, account is B and signer is the signer derived for B
C18_Witness ==
    /\ ret.op = "call"
    /\ ret.method = "sync"
    /\ constructed
    /\ syncSt.pc = "awaitReconnect"
    /\ account = "B"
    /\ signer = SignerFor("B")
    /\ PendingCount = 0

\* the steps that may still write account or signer once the constructor-time
\* subscription is released: connect(), disconnect(), sync() and the
\* resolution of a derivation
WritersAfterCleanup == {"connect", "resumed", "disconnect", "sync", "derived"}

\* C19: once cleanupListeners() has been called, an emission changes neither
\* account nor signer and starts no derivation; a step that changes account or
\* signer is one of connect(), disconnect(), sync() or a derivation resolving
C19_NoEmissionWritesAfterCleanup ==
    [][unsubCalls > 0
         => /\ ret'.op = "emit"
                => /\ account' = account
                   /\ signer' = signer
                   /\ pending' = pending
            /\ (account' # account \/ signer' # signer)
                => ret'.op \in WritersAfterCleanup]_vars

\* after cleanupListeners() an emission naming B is delivered to the store's
\* subscribers: the adapter keeps account A and the signer derived for A
C19_Witness ==
    /\ ret.op = "emit"
    /\ unsubCalls > 0
    /\ ~ownSub
    /\ NamedAccount(ret.state) = "B"
    /\ account = "A"
    /\ signer = SignerFor("A")
    /\ PendingCount = 0

\* C20: in every quiescent state (no connect, disconnect, sync or derivation in
\* flight) a non-null signer is the signer derived for the address account holds
C20_QuiescentSignerMatchesAccount ==
    (/\ connectSt.pc = "idle"
     /\ disconnectSt.pc = "idle"
     /\ syncSt.pc = "idle"
     /\ PendingCount = 0
     /\ signer # Null)
        => (account # Null /\ signer = SignerFor(account))
====
